---------------------------- MODULE Spec2Model ----------------------------
(***************************************************************************)
(* Model of the uho-backfill sidecar (src/sidecar/src/main.rs): the        *)
(* ProgramFilterPlugin, its on_transaction callback run concurrently by    *)
(* the producer's worker threads, and main / async_main around it.         *)
(*                                                                         *)
(* Text is a sequence of one-character strings, bytes are 0..255.  The     *)
(* base58 codec and the JSON serializer are modelled by their algorithms.  *)
(* AtomicU64 arithmetic wraps at 2^64; the slot ranges explored keep every *)
(* counter far below that, so the counters are plain naturals here.        *)
(***************************************************************************)
EXTENDS Integers, Sequences, FiniteSets, TLC

(***************************************************************************)
(* Bounds of the model.                                                    *)
(***************************************************************************)
\* Worker threads of the producer calling on_transaction concurrently.
NumThreads == 2
\* Transaction records in a slot range drawn from the mixed stretch of the
\* ledger, at most.
MaxTx == 3

(***************************************************************************)
(* Program constants.                                                      *)
(***************************************************************************)
\* Width of program_id_bytes.
KeyLen == 32
\* Progress cadence; 100_000 in the source, scaled so that a run of MaxTx
\* records crosses a multiple.  Only divisibility by it is ever used.
Threshold == 2

Threads == 1..NumThreads

Repeat(x, n) == [i \in 1..n |-> x]

RECURSIVE Reverse(_)
Reverse(s) == IF s = <<>> THEN <<>> ELSE Append(Reverse(Tail(s)), Head(s))

RECURSIVE Concat(_)
\* The concatenation of a sequence of sequences.
Concat(ss) == IF ss = <<>> THEN <<>> ELSE Head(ss) \o Concat(Tail(ss))

None == [some |-> FALSE]
Some(v) == [some |-> TRUE, val |-> v]

(***************************************************************************)
(* Base58 (the bs58 crate, Bitcoin alphabet).                              *)
(***************************************************************************)
Alphabet ==
    << "1", "2", "3", "4", "5", "6", "7", "8", "9",
       "A", "B", "C", "D", "E", "F", "G", "H", "J", "K", "L", "M", "N", "P", "Q",
       "R", "S", "T", "U", "V", "W", "X", "Y", "Z",
       "a", "b", "c", "d", "e", "f", "g", "h", "i", "j", "k", "m", "n", "o", "p",
       "q", "r", "s", "t", "u", "v", "w", "x", "y", "z" >>

\* The value of a base58 character, -1 for a character outside the alphabet.
DigitOf(c) ==
    IF \E i \in 1..58 : Alphabet[i] = c
    THEN (CHOOSE i \in 1..58 : Alphabet[i] = c) - 1
    ELSE -1

RECURSIVE Carry(_, _, _, _, _)
\* One pass over the little-endian digits ds (base b): ds * mul + val.
Carry(ds, i, val, mul, b) ==
    IF i > Len(ds)
    THEN IF val = 0 THEN <<>> ELSE <<val % b>> \o Carry(ds, i, val \div b, mul, b)
    ELSE LET v == val + ds[i] * mul
         IN  <<v % b>> \o Carry(ds, i + 1, v \div b, mul, b)

RECURSIVE LeadingCount(_, _)
LeadingCount(s, x) ==
    IF s # <<>> /\ Head(s) = x THEN 1 + LeadingCount(Tail(s), x) ELSE 0

RECURSIVE DecodeDigits(_, _, _)
DecodeDigits(str, i, out) ==
    IF i > Len(str) THEN out
    ELSE DecodeDigits(str, i + 1, Carry(out, 1, DigitOf(str[i]), 58, 256))

\* bs58::decode(s).into_vec(): Err on a character outside the alphabet; each
\* leading "1" is one leading zero byte.
Bs58Decode(str) ==
    IF \E i \in 1..Len(str) : DigitOf(str[i]) < 0
    THEN [ok |-> FALSE, bytes |-> <<>>]
    ELSE LET z   == LeadingCount(str, "1")
             out == DecodeDigits(str, z + 1, <<>>)
         IN  [ok |-> TRUE, bytes |-> Repeat(0, z) \o Reverse(out)]

RECURSIVE EncodeDigits(_, _, _)
EncodeDigits(bytes, i, out) ==
    IF i > Len(bytes) THEN out
    ELSE EncodeDigits(bytes, i + 1, Carry(out, 1, bytes[i], 256, 58))

\* bs58::encode(bytes).into_string(): each leading zero byte is one "1".
Bs58Encode(bytes) ==
    LET z   == LeadingCount(bytes, 0)
        rev == Reverse(EncodeDigits(bytes, z + 1, <<>>))
    IN  Repeat("1", z) \o [i \in 1..Len(rev) |-> Alphabet[rev[i] + 1]]

(***************************************************************************)
(* Text helpers.                                                           *)
(***************************************************************************)
\* str::contains: needle occurs in hay as a contiguous substring.
Contains(hay, needle) ==
    \E i \in 1..(Len(hay) - Len(needle) + 1) :
        SubSeq(hay, i, i + Len(needle) - 1) = needle

DecDigits == << "0", "1", "2", "3", "4", "5", "6", "7", "8", "9" >>

RECURSIVE NatToText(_)
NatToText(n) ==
    IF n < 10 THEN << DecDigits[n + 1] >>
    ELSE Append(NatToText(n \div 10), DecDigits[(n % 10) + 1])

\* Display of u64 / i64 as serde_json writes it.
IntToText(n) == IF n < 0 THEN << "-" >> \o NatToText(0 - n) ELSE NatToText(n)

(***************************************************************************)
(* serde_json::to_string of an OutputRecord.                               *)
(***************************************************************************)
\* One character of a JSON string as serde_json writes it: the quote, the
\* backslash and the control characters are escaped.
EscapeChar(c) ==
    CASE c = "\"" -> << "\\", "\"" >>
      [] c = "\\" -> << "\\", "\\" >>
      [] c = "\n" -> << "\\", "n" >>
      [] c = "\r" -> << "\\", "r" >>
      [] c = "\t" -> << "\\", "t" >>
      [] c = "\f" -> << "\\", "f" >>
      [] OTHER    -> << c >>

JsonString(str) ==
    << "\"" >> \o Concat([i \in 1..Len(str) |-> EscapeChar(str[i])]) \o << "\"" >>

\* The elements of a JSON array, separated by commas.
JsonItems(items) ==
    Concat([i \in 1..Len(items) |->
               IF i = 1 THEN items[i] ELSE << "," >> \o items[i]])

KeySignature == << "{", "\"", "s", "i", "g", "n", "a", "t", "u", "r", "e", "\"", ":" >>
KeySlot      == << ",", "\"", "s", "l", "o", "t", "\"", ":" >>
KeyBlockTime == << ",", "\"", "b", "l", "o", "c", "k", "T", "i", "m", "e", "\"", ":" >>
KeyLogs      == << ",", "\"", "l", "o", "g", "s", "\"", ":", "[" >>
JsonNull     == << "n", "u", "l", "l" >>
JsonClose    == << "]", "}" >>

\* #[derive(Serialize)] of OutputRecord: the fields in declaration order,
\* block_time renamed blockTime, None written null.
ToJson(record) ==
    KeySignature \o JsonString(record.signature)
    \o KeySlot \o IntToText(record.slot)
    \o KeyBlockTime
    \o (IF record.block_time.some THEN IntToText(record.block_time.val) ELSE JsonNull)
    \o KeyLogs
    \o JsonItems([i \in 1..Len(record.logs) |-> JsonString(record.logs[i])])
    \o JsonClose

\* As Println, without the line terminator.
PrintUnterminated(stream, text) == stream \o text

\* As Println, with the new line put in front of what the stream holds.
PrintlnInFront(stream, text) == text \o << "\n" >> \o stream

\* println!("{}", json): the text and its line terminator, appended to the
\* stream under the stream's lock, as one write.
Println(stream, text) == stream \o text \o << "\n" >>

(***************************************************************************)
(* Inputs: the --program arguments tried and the records the producer can  *)
(* deliver.  Keys and signatures have many leading zero bytes, which keeps *)
(* their base58 text cheap to compute; any 32 bytes are a valid key.       *)
(***************************************************************************)
\* Decodes to 32 bytes: 29 zero bytes, then 7, 200, 13.
ArgValid ==
    << "1", "1", "1", "1", "1", "1", "1", "1", "1", "1", "1", "1", "1", "1", "1", "1", "1",
       "1", "1", "1", "1", "1", "1", "1", "1", "1", "1", "1", "1", "3", "c", "b", "W" >>
\* Decodes to 33 bytes: 30 zero bytes, then 5, 9, 77.
ArgLong ==
    << "1", "1", "1", "1", "1", "1", "1", "1", "1", "1", "1", "1", "1", "1", "1", "1", "1",
       "1", "1", "1", "1", "1", "1", "1", "1", "1", "1", "1", "1", "1", "2", "h", "7", "i" >>
\* Decodes to 31 bytes: 29 zero bytes, then 1, 2.
ArgShort ==
    << "1", "1", "1", "1", "1", "1", "1", "1", "1", "1", "1", "1", "1", "1", "1", "1", "1",
       "1", "1", "1", "1", "1", "1", "1", "1", "1", "1", "1", "1", "5", "T" >>
\* Not base58: l, 0 and O are outside the alphabet.
ArgBad ==
    << "1", "1", "1", "1", "1", "1", "1", "1", "1", "1", "1", "1", "1", "1", "1", "1", "1",
       "1", "1", "1", "1", "1", "1", "1", "1", "1", "1", "1", "1", "l", "0", "O" >>

ProgramArgs == << ArgValid, ArgLong, ArgShort, ArgBad >>

KeyA     == Repeat(0, 29) \o << 7, 200, 13 >>
KeyOther == Repeat(0, 29) \o << 9, 9, 9 >>
\* The first 32 of the 33 bytes ArgLong decodes to.
KeyLongPrefix == Repeat(0, 30) \o << 5, 9 >>
TextLongPrefix == Repeat("1", 30) \o << "P", "E" >>

Sig(a, b, c) == Repeat(0, 61) \o << a, b, c >>

TxtProgram == << "P", "r", "o", "g", "r", "a", "m", " " >>
TxtInvoke  == << " ", "i", "n", "v", "o", "k", "e", " ", "[", "1", "]" >>
TxtSuccess == << " ", "s", "u", "c", "c", "e", "s", "s" >>
TxtLogInvoke ==
    << "P", "r", "o", "g", "r", "a", "m", " ", "l", "o", "g", ":", " ", "i", "n", "v", "o",
       "k", "e" >>
\* A log line with a quote, a backslash and a line break in it.
TxtQuoted == << "s", "a", "y", " ", "\"", "h", "i", "\"", "\\", "\n", "x" >>

\* TransactionData as on_transaction reads it: signature, slot, block_time,
\* is_vote, the message's static account keys, the meta's log_messages.
Records ==
    << \* 1: passes all three stages under ArgValid
       [ signature |-> Sig(3, 1, 4), slot |-> 7, block_time |-> Some(42),
         is_vote |-> FALSE, account_keys |-> << KeyOther, KeyA >>,
         log_messages |-> Some(<< TxtLogInvoke, TxtProgram \o ArgValid \o TxtSuccess >>) ],
       \* 2: a vote that would pass stages 2 and 3
       [ signature |-> Sig(1, 1, 1), slot |-> 7, block_time |-> Some(42),
         is_vote |-> TRUE, account_keys |-> << KeyA >>,
         log_messages |-> Some(<< TxtProgram \o ArgValid \o TxtSuccess >>) ],
       \* 3: the logs name ArgValid's key but the account keys do not hold it;
       \*    passes all three stages under the 32-byte prefix of ArgLong
       [ signature |-> Sig(2, 2, 2), slot |-> 5, block_time |-> Some(-5),
         is_vote |-> FALSE, account_keys |-> << KeyOther, KeyLongPrefix >>,
         log_messages |-> Some(<< TxtProgram \o ArgValid \o TxtInvoke,
                                  TxtProgram \o TextLongPrefix \o TxtSuccess >>) ],
       \* 4: no log list at all
       [ signature |-> Sig(4, 4, 4), slot |-> 8, block_time |-> None,
         is_vote |-> FALSE, account_keys |-> << KeyA, KeyLongPrefix >>,
         log_messages |-> None ],
       \* 5: an empty log list
       [ signature |-> Sig(5, 5, 5), slot |-> 8, block_time |-> Some(43),
         is_vote |-> FALSE, account_keys |-> << KeyLongPrefix, KeyA >>,
         log_messages |-> Some(<< >>) ],
       \* 6: logs that never name the program
       [ signature |-> Sig(6, 6, 6), slot |-> 9, block_time |-> Some(44),
         is_vote |-> FALSE, account_keys |-> << KeyA, KeyLongPrefix >>,
         log_messages |-> Some(<< TxtLogInvoke, TxtQuoted >>) ],
       \* 7: passes all three stages under ArgValid; no timestamp, an earlier
       \*    slot, text that needs escaping
       [ signature |-> Sig(2, 7, 1), slot |-> 3, block_time |-> None,
         is_vote |-> FALSE, account_keys |-> << KeyA >>,
         log_messages |-> Some(<< TxtQuoted, TxtProgram \o ArgValid \o TxtInvoke,
                                  TxtLogInvoke >>) ],
       \* 8: passes all three stages under ArgValid
       [ signature |-> Sig(8, 8, 8), slot |-> 10, block_time |-> Some(45),
         is_vote |-> FALSE, account_keys |-> << KeyA >>,
         log_messages |-> Some(<< TxtProgram \o ArgValid \o TxtInvoke >>) ],
       \* 9: passes all three stages under ArgValid
       [ signature |-> Sig(9, 9, 9), slot |-> 11, block_time |-> Some(46),
         is_vote |-> FALSE, account_keys |-> << KeyA, KeyOther >>,
         log_messages |-> Some(<< TxtProgram \o ArgValid \o TxtSuccess >>) ] >>

RecIds == 1..Len(Records)

\* --start-slot and --end-slot: the records the requested slot range holds.
\* A range drawn from the mixed stretch of the ledger (records 1 to 7) holds
\* at most MaxTx records; one range holds only transactions of the program.
MixedLedger == 1..7
BusyRange == {1, 7, 8, 9}
SlotRanges ==
    { S \in SUBSET MixedLedger : Cardinality(S) <= MaxTx } \cup { BusyRange }

\* Signature's Display: the base58 text of its 64 bytes.
SignatureToString(sig) == Bs58Encode(sig)

(***************************************************************************)
(* The plugin's pure steps.                                                *)
(***************************************************************************)
\* ProgramFilterPlugin::new: expect() panics on a decoding error, the slice
\* bytes[..32] panics on fewer than 32 bytes and otherwise takes the first 32.
NewPlugin(program_id) ==
    LET decoded == Bs58Decode(program_id)
    IN  IF ~decoded.ok THEN [ok |-> FALSE, bytes |-> << >>]
        ELSE IF Len(decoded.bytes) < KeyLen THEN [ok |-> FALSE, bytes |-> << >>]
        ELSE [ok |-> TRUE, bytes |-> SubSeq(decoded.bytes, 1, KeyLen)]

\* The value an AtomicU64 holds after fetch_add(1); the call returns the
\* value before.
FetchAdd(v) == v + 1

\* As ProgressDue, testing the value tx_count holds after the increment.
ProgressDueAfterIncrement(count) == (count + 1) % Threshold = 0

\* The progress condition on the value tx_count.fetch_add returned.
ProgressDue(count) == count > 0 /\ count % Threshold = 0

\* As ProgramInvolved, comparing only the first byte of each key.
ProgramInvolvedFirstByte(account_keys, id) ==
    \E i \in 1..Len(account_keys) : account_keys[i][1] = id[1]

\* account_keys.iter().any(|key| key.to_bytes() == self.program_id_bytes)
ProgramInvolved(account_keys, id) ==
    \E i \in 1..Len(account_keys) : account_keys[i] = id

\* log_messages.as_ref().map(|msgs| msgs.clone()).unwrap_or_default()
ExtractLogs(log_messages) ==
    IF log_messages.some THEN log_messages.val ELSE << >>

\* As HasProgramLog, with all() in place of any().
HasProgramLogAll(logs, program_b58) ==
    \A i \in 1..Len(logs) : Contains(logs[i], program_b58)

\* logs.iter().any(|log| log.contains(&program_b58))
HasProgramLog(logs, program_b58) ==
    \E i \in 1..Len(logs) : Contains(logs[i], program_b58)

\* As Classify, without the vote stage.
ClassifyVotesToo(tx, id) ==
    IF ~ProgramInvolved(tx.account_keys, id) THEN "not_involved"
    ELSE LET logs == ExtractLogs(tx.log_messages)
         IN  IF logs = << >> THEN "no_logs"
             ELSE IF ~HasProgramLog(logs, Bs58Encode(id)) THEN "no_program_log"
             ELSE "accept"

\* As Classify, with the empty-log return gone and all() in place of any().
ClassifyAllLogs(tx, id) ==
    IF tx.is_vote THEN "vote"
    ELSE IF ~ProgramInvolved(tx.account_keys, id) THEN "not_involved"
    ELSE LET logs == ExtractLogs(tx.log_messages)
         IN  IF ~(\A i \in 1..Len(logs) : Contains(logs[i], Bs58Encode(id)))
             THEN "no_program_log"
             ELSE "accept"

\* Which return of on_transaction's filter (lines 104-138) a record takes:
\* the stage that rejects it, or "accept".
Classify(tx, id) ==
    IF tx.is_vote THEN "vote"
    ELSE IF ~ProgramInvolved(tx.account_keys, id) THEN "not_involved"
    ELSE LET logs == ExtractLogs(tx.log_messages)
         IN  IF logs = << >> THEN "no_logs"
             ELSE IF ~HasProgramLog(logs, Bs58Encode(id)) THEN "no_program_log"
             ELSE "accept"

(***************************************************************************)
(* State.                                                                  *)
(***************************************************************************)
VARIABLES
    main_pc,          \* where main / async_main stands
    program,          \* args.program
    slot_range,       \* the records in args.start_slot..args.end_slot
    program_id_bytes, \* the plugin's target, << >> before construction
    tx_count,         \* AtomicU64
    match_count,      \* AtomicU64
    last_slot,        \* AtomicU64
    pc,               \* per thread: where its on_transaction call stands
    transaction,      \* per thread: the record of its call (0: none)
    count,            \* per thread: local count
    matches,          \* per thread: local matches
    slot,             \* per thread: local slot
    outcome,          \* per record: how its call went
    result,           \* per record: what its call returned ("none": not yet)
    wrote,            \* per thread: the record of its latest println! (0: none)
    stdout,           \* the primary output stream, as text
    stderr            \* the diagnostic stream, as a sequence of lines

vars == << main_pc, program, slot_range, program_id_bytes, tx_count, match_count, last_slot,
           pc, transaction, count, matches, slot, outcome, result, wrote,
           stdout, stderr >>

shared == << tx_count, match_count, last_slot >>
locals == << count, matches, slot >>
config == << program, slot_range, program_id_bytes >>

\* As MakeOutputRecord, with the slot read back from last_slot.
MakeOutputRecordSharedSlot(tx, logs) ==
    [ signature  |-> SignatureToString(tx.signature),
      slot       |-> last_slot,
      block_time |-> tx.block_time,
      logs       |-> logs ]

\* The OutputRecord built from the transaction and its cloned logs.
MakeOutputRecord(tx, logs) ==
    [ signature  |-> SignatureToString(tx.signature),
      slot       |-> tx.slot,
      block_time |-> tx.block_time,
      logs       |-> logs ]

Init ==
    /\ main_pc = "start"
    /\ program \in { ProgramArgs[i] : i \in 1..Len(ProgramArgs) }
    /\ slot_range \in SlotRanges
    /\ program_id_bytes = << >>
    /\ tx_count = 0
    /\ match_count = 0
    /\ last_slot = 0
    /\ pc = [t \in Threads |-> "idle"]
    /\ transaction = [t \in Threads |-> 0]
    /\ count = [t \in Threads |-> 0]
    /\ matches = [t \in Threads |-> 0]
    /\ slot = [t \in Threads |-> 0]
    /\ outcome = [r \in RecIds |-> "none"]
    /\ result = [r \in RecIds |-> "none"]
    /\ wrote = [t \in Threads |-> 0]
    /\ stdout = << >>
    /\ stderr = << >>

(***************************************************************************)
(* main and async_main.                                                    *)
(***************************************************************************)
\* main: the startup banner on the diagnostic stream.
Banner ==
    /\ main_pc = "start"
    /\ stderr' = Append(stderr, [kind |-> "START"])
    /\ main_pc' = "new"
    /\ UNCHANGED << config, shared, pc, transaction, locals, outcome, stdout,
                    result, wrote >>

\* async_main: the plugin is constructed and registered, or new() panics.
New ==
    /\ main_pc = "new"
    /\ LET made == NewPlugin(program)
       IN  IF made.ok
           THEN /\ program_id_bytes' = made.bytes
                /\ main_pc' = "running"
           ELSE /\ program_id_bytes' = program_id_bytes
                /\ main_pc' = "panicked"
    /\ UNCHANGED << program, slot_range, shared, pc, transaction, locals, outcome, stdout, stderr,
                    result, wrote >>

\* No on_transaction call is in progress.
Quiescent == \A t \in Threads : pc[t] \in {"idle", "panicked"}

\* run_range returns Ok once the producer has handed out every record of the
\* slot range and driven every call to its end;
\* the DONE line follows.
RunRangeOk ==
    /\ main_pc = "running"
    /\ \A r \in slot_range : outcome[r] # "none"
    /\ \A t \in Threads : pc[t] = "idle"
    /\ stderr' = Append(stderr, [kind |-> "DONE"])
    /\ main_pc' = "done"
    /\ UNCHANGED << config, shared, pc, transaction, locals, outcome, stdout,
                    result, wrote >>

\* As RunRangeErr, with the error dropped in place of propagated by ?: the
\* DONE line is written all the same.
RunRangeErrIgnored ==
    /\ main_pc = "running"
    /\ Quiescent
    /\ stderr' = Append(stderr, [kind |-> "DONE"])
    /\ main_pc' = "failed"
    /\ UNCHANGED << config, shared, pc, transaction, locals, outcome, stdout,
                    result, wrote >>

\* run_range returns Err and ? propagates it: no DONE line.
RunRangeErr ==
    /\ main_pc = "running"
    /\ Quiescent
    /\ main_pc' = "failed"
    /\ UNCHANGED << config, shared, pc, transaction, locals, outcome, stdout, stderr,
                    result, wrote >>

(***************************************************************************)
(* on_transaction, one action per shared access.                           *)
(***************************************************************************)
\* As ReturnValue, with a transaction that has no logs reported as a failure.
ReturnValueErrOnNoLogs(how) == IF how = "no_logs" THEN "Err" ELSE "Ok"

\* The value every return statement of on_transaction hands back: Ok(()) at
\* lines 106, 117, 130, 137 and 153.
ReturnValue(how) == "Ok"

\* The end of a call: its value is handed back and its locals are dropped.
Return(t, how) ==
    /\ outcome' = [outcome EXCEPT ![transaction[t]] = how]
    /\ result' = [result EXCEPT ![transaction[t]] = ReturnValue(how)]
    /\ pc' = [pc EXCEPT ![t] = "idle"]
    /\ transaction' = [transaction EXCEPT ![t] = 0]
    /\ count' = [count EXCEPT ![t] = 0]
    /\ matches' = [matches EXCEPT ![t] = 0]
    /\ slot' = [slot EXCEPT ![t] = 0]

\* Idle threads with the same past are interchangeable: which of them the
\* producer's pool uses for the next record makes no difference, and the
\* lowest-numbered one stands for them all.
FirstOfItsKind(t) ==
    \A u \in Threads : (u < t /\ pc[u] = "idle") => wrote[u] # wrote[t]

\* As RecordSeen, with the increment done as a load and a store: it is lost
\* when another thread's increment lands in between.
RecordSeenLoadStore(t, r) ==
    /\ main_pc = "running"
    /\ pc[t] = "idle"
    /\ FirstOfItsKind(t)
    /\ r \in slot_range
    /\ outcome[r] = "none"
    /\ \A earlier \in slot_range : earlier < r => outcome[earlier] # "none"
    /\ count' = [count EXCEPT ![t] = tx_count]
    /\ tx_count' = IF \E u \in Threads \ {t} : pc[u] = "store_slot"
                   THEN tx_count
                   ELSE FetchAdd(tx_count)
    /\ transaction' = [transaction EXCEPT ![t] = r]
    /\ outcome' = [outcome EXCEPT ![r] = "running"]
    /\ pc' = [pc EXCEPT ![t] = "store_slot"]
    /\ UNCHANGED << main_pc, config, match_count, last_slot, matches, slot,
                    stdout, stderr, result, wrote >>

\* The producer hands record r to thread t, and line 91 runs:
\* let count = self.tx_count.fetch_add(1, Relaxed).  The producer walks the
\* records of the slot range in index order and hands each out once, to an
\* idle worker thread.
RecordSeen(t, r) ==
    /\ main_pc = "running"
    /\ pc[t] = "idle"
    /\ FirstOfItsKind(t)
    /\ r \in slot_range
    /\ outcome[r] = "none"
    /\ \A earlier \in slot_range : earlier < r => outcome[earlier] # "none"
    /\ count' = [count EXCEPT ![t] = tx_count]
    /\ tx_count' = FetchAdd(tx_count)
    /\ transaction' = [transaction EXCEPT ![t] = r]
    /\ outcome' = [outcome EXCEPT ![r] = "running"]
    /\ pc' = [pc EXCEPT ![t] = "store_slot"]
    /\ UNCHANGED << main_pc, config, match_count, last_slot, matches, slot,
                    stdout, stderr, result, wrote >>

\* As StoreSlot, with a call that has no report to make going on to the
\* matched counter without passing the filter.
StoreSlotSkipsFilter(t) ==
    /\ pc[t] = "store_slot"
    /\ last_slot' = Records[transaction[t]].slot
    /\ pc' = [pc EXCEPT ![t] = IF ProgressDue(count[t]) THEN "load_matches"
                                                         ELSE "record_matched"]
    /\ UNCHANGED << main_pc, config, tx_count, match_count, transaction, locals,
                    outcome, stdout, stderr, result, wrote >>

\* As StoreSlot, with fetch_max in place of store: the highest slot is kept.
StoreSlotMax(t) ==
    /\ pc[t] = "store_slot"
    /\ last_slot' = IF Records[transaction[t]].slot > last_slot
                    THEN Records[transaction[t]].slot ELSE last_slot
    /\ pc' = [pc EXCEPT ![t] = IF ProgressDue(count[t]) THEN "load_matches"
                                                         ELSE "filter"]
    /\ UNCHANGED << main_pc, config, tx_count, match_count, transaction, locals,
                    outcome, stdout, stderr, result, wrote >>

\* Line 92: self.last_slot.store(transaction.slot, Relaxed); then the test of
\* line 95.
StoreSlot(t) ==
    /\ pc[t] = "store_slot"
    /\ last_slot' = Records[transaction[t]].slot
    /\ pc' = [pc EXCEPT ![t] = IF ProgressDue(count[t]) THEN "load_matches"
                                                         ELSE "filter"]
    /\ UNCHANGED << main_pc, config, tx_count, match_count, transaction, locals,
                    outcome, stdout, stderr, result, wrote >>

\* As LoadMatches, with the snapshot taken from tx_count.
LoadMatchesFromTxCount(t) ==
    /\ pc[t] = "load_matches"
    /\ matches' = [matches EXCEPT ![t] = tx_count]
    /\ pc' = [pc EXCEPT ![t] = "load_slot"]
    /\ UNCHANGED << main_pc, config, shared, transaction, count, slot, outcome,
                    stdout, stderr, result, wrote >>

\* As LoadMatches, with swap(0) in place of load: the counter starts a new
\* window at every report.
LoadMatchesSwap(t) ==
    /\ pc[t] = "load_matches"
    /\ matches' = [matches EXCEPT ![t] = match_count]
    /\ match_count' = 0
    /\ pc' = [pc EXCEPT ![t] = "load_slot"]
    /\ UNCHANGED << main_pc, config, tx_count, last_slot, transaction, count, slot,
                    outcome, stdout, stderr, result, wrote >>

\* Line 96: let matches = self.match_count.load(Relaxed).
LoadMatches(t) ==
    /\ pc[t] = "load_matches"
    /\ matches' = [matches EXCEPT ![t] = match_count]
    /\ pc' = [pc EXCEPT ![t] = "load_slot"]
    /\ UNCHANGED << main_pc, config, shared, transaction, count, slot, outcome,
                    stdout, stderr, result, wrote >>

\* Line 97: let slot = self.last_slot.load(Relaxed).
LoadSlot(t) ==
    /\ pc[t] = "load_slot"
    /\ slot' = [slot EXCEPT ![t] = last_slot]
    /\ pc' = [pc EXCEPT ![t] = "report"]
    /\ UNCHANGED << main_pc, config, shared, transaction, count, matches, outcome,
                    stdout, stderr, result, wrote >>

\* The text of a PROGRESS line, as the format string of lines 98-101 gives it.
ProgressText(processed, matched, currentSlot) ==
    << "P", "R", "O", "G", "R", "E", "S", "S", ":", "{", "\"", "p", "r", "o", "c", "e",
       "s", "s", "e", "d", "\"", ":" >> \o NatToText(processed)
    \o << ",", "\"", "m", "a", "t", "c", "h", "e", "d", "\"", ":" >> \o NatToText(matched)
    \o << ",", "\"", "c", "u", "r", "r", "e", "n", "t", "S", "l", "o", "t", "\"", ":" >>
    \o NatToText(currentSlot) \o << "}" >>

\* The PROGRESS line written with println! in place of eprintln!.
ReportToStdout(t) ==
    /\ pc[t] = "report"
    /\ stdout' = Println(stdout, ProgressText(count[t], matches[t], slot[t]))
    /\ pc' = [pc EXCEPT ![t] = "filter"]
    /\ UNCHANGED << main_pc, config, shared, transaction, locals, outcome, stderr,
                    result, wrote >>

\* Lines 98-101: the PROGRESS line, on the diagnostic stream.
Report(t) ==
    /\ pc[t] = "report"
    /\ stderr' = Append(stderr, [ kind |-> "PROGRESS", processed |-> count[t],
                                  matched |-> matches[t], currentSlot |-> slot[t] ])
    /\ pc' = [pc EXCEPT ![t] = "filter"]
    /\ UNCHANGED << main_pc, config, shared, transaction, locals, outcome, stdout,
                    result, wrote >>

\* Lines 104-138: the three filter stages, on the call's own record and the
\* immutable target; every rejection returns Ok(()).
Filter(t) ==
    /\ pc[t] = "filter"
    /\ LET decision == Classify(Records[transaction[t]], program_id_bytes)
       IN  IF decision = "accept"
           THEN /\ pc' = [pc EXCEPT ![t] = "record_matched"]
                /\ UNCHANGED << transaction, locals, outcome, result >>
           ELSE Return(t, decision)
    /\ UNCHANGED << main_pc, config, shared, stdout, stderr, wrote >>

\* As RecordMatched, with the increment left out.
RecordMatchedNotCounted(t) ==
    /\ pc[t] = "record_matched"
    /\ pc' = [pc EXCEPT ![t] = "emit"]
    /\ UNCHANGED << main_pc, config, shared, transaction, locals,
                    outcome, stdout, stderr, result, wrote >>

\* Line 140: self.match_count.fetch_add(1, Relaxed).
RecordMatched(t) ==
    /\ pc[t] = "record_matched"
    /\ match_count' = FetchAdd(match_count)
    /\ pc' = [pc EXCEPT ![t] = "emit"]
    /\ UNCHANGED << main_pc, config, tx_count, last_slot, transaction, locals,
                    outcome, stdout, stderr, result, wrote >>

\* Lines 142-153: the record is built, serialized and printed, and the call
\* returns Ok(()).
Emit(t) ==
    /\ pc[t] = "emit"
    /\ LET tx     == Records[transaction[t]]
           record == MakeOutputRecord(tx, ExtractLogs(tx.log_messages))
       IN  stdout' = Println(stdout, ToJson(record))
    /\ wrote' = [wrote EXCEPT ![t] = transaction[t]]
    /\ Return(t, "emitted")
    /\ UNCHANGED << main_pc, config, shared, stderr >>

\* Lines 150-151 the other way: unwrap() on a serialization error, or
\* println! on a failed write to stdout, panics; the call unwinds with
\* nothing written.
EmitPanic(t) ==
    /\ pc[t] = "emit"
    /\ outcome' = [outcome EXCEPT ![transaction[t]] = "panicked"]
    /\ pc' = [pc EXCEPT ![t] = "panicked"]
    /\ transaction' = [transaction EXCEPT ![t] = 0]
    /\ count' = [count EXCEPT ![t] = 0]
    /\ matches' = [matches EXCEPT ![t] = 0]
    /\ slot' = [slot EXCEPT ![t] = 0]
    /\ UNCHANGED << main_pc, config, shared, stdout, stderr,
                    result, wrote >>

Next ==
    \/ Banner
    \/ New
    \/ RunRangeOk
    \/ RunRangeErr
    \/ \E t \in Threads, r \in RecIds : RecordSeen(t, r)
    \/ \E t \in Threads : StoreSlot(t)
    \/ \E t \in Threads : LoadMatches(t)
    \/ \E t \in Threads : LoadSlot(t)
    \/ \E t \in Threads : Report(t)
    \/ \E t \in Threads : Filter(t)
    \/ \E t \in Threads : RecordMatched(t)
    \/ \E t \in Threads : Emit(t)
    \/ \E t \in Threads : EmitPanic(t)

Spec == Init /\ [][Next]_vars

(***************************************************************************)
(* Reading the primary output stream back: the lines of the stream and a   *)
(* JSON reader for one line, as the consumer of the stream would apply.    *)
(***************************************************************************)
Failed == [ok |-> FALSE]

HasAt(s, i, lit) ==
    /\ i + Len(lit) - 1 <= Len(s)
    /\ SubSeq(s, i, i + Len(lit) - 1) = lit

UnescapeChar(c) ==
    CASE c = "n" -> "\n"
      [] c = "r" -> "\r"
      [] c = "t" -> "\t"
      [] c = "f" -> "\f"
      [] OTHER   -> c

\* The number of backslashes that end right before position k, counted no
\* further back than position from.
BackslashRun(s, from, k) ==
    LET stops == { j \in (from - 1)..(k - 1) : j = from - 1 \/ s[j] # "\\" }
    IN  (k - 1) - (CHOOSE j \in stops : \A x \in stops : x <= j)

\* The character at k is the second character of an escape.
Escaped(s, from, k) ==
    /\ k > from
    /\ s[k - 1] = "\\"
    /\ BackslashRun(s, from, k) % 2 = 1

RECURSIVE Unescape(_, _, _, _)
\* The characters that positions lo..hi of a JSON string's body stand for.
Unescape(s, from, lo, hi) ==
    IF lo > hi THEN << >>
    ELSE IF lo = hi
         THEN IF Escaped(s, from, lo) THEN << UnescapeChar(s[lo]) >>
              ELSE IF s[lo] = "\\" THEN << >>
              ELSE << s[lo] >>
    ELSE LET mid == (lo + hi) \div 2
         IN  Unescape(s, from, lo, mid) \o Unescape(s, from, mid + 1, hi)

\* The JSON string whose opening quote is at position i: its body runs to
\* the first quote that is not escaped.
ParseString(s, i) ==
    IF ~(i <= Len(s) /\ s[i] = "\"") THEN Failed ELSE
    LET from    == i + 1
        closers == { j \in from..Len(s) : s[j] = "\"" /\ ~Escaped(s, from, j) }
    IN  IF closers = {} THEN Failed ELSE
        LET close == CHOOSE j \in closers : \A x \in closers : j <= x
            sound == \A k \in from..(close - 1) :
                        IF Escaped(s, from, k)
                        THEN s[k] \in {"\"", "\\", "/", "n", "r", "t", "f"}
                        ELSE s[k] \notin {"\n", "\r", "\t", "\f"}
        IN  IF ~sound THEN Failed
            ELSE [ ok |-> TRUE, val |-> Unescape(s, from, from, close - 1),
                   next |-> close + 1 ]

DigitVal(c) ==
    IF \E d \in 1..10 : DecDigits[d] = c
    THEN (CHOOSE d \in 1..10 : DecDigits[d] = c) - 1
    ELSE -1

RECURSIVE ParseDigitsAt(_, _, _)
ParseDigitsAt(s, i, acc) ==
    IF i <= Len(s) /\ DigitVal(s[i]) >= 0
    THEN ParseDigitsAt(s, i + 1, acc * 10 + DigitVal(s[i]))
    ELSE [ok |-> TRUE, val |-> acc, next |-> i]

ParseNat(s, i) ==
    IF i <= Len(s) /\ DigitVal(s[i]) >= 0 THEN ParseDigitsAt(s, i, 0) ELSE Failed

ParseInt(s, i) ==
    IF i <= Len(s) /\ s[i] = "-"
    THEN LET n == ParseNat(s, i + 1)
         IN  IF n.ok THEN [ok |-> TRUE, val |-> 0 - n.val, next |-> n.next] ELSE Failed
    ELSE ParseNat(s, i)

\* An integer or null.
ParseOptionalInt(s, i) ==
    IF HasAt(s, i, JsonNull)
    THEN [ok |-> TRUE, val |-> None, next |-> i + Len(JsonNull)]
    ELSE LET n == ParseInt(s, i)
         IN  IF n.ok THEN [ok |-> TRUE, val |-> Some(n.val), next |-> n.next] ELSE Failed

RECURSIVE ParseItemsAt(_, _, _)
\* The strings of an array from position i, up to its closing bracket.
ParseItemsAt(s, i, acc) ==
    LET item == ParseString(s, i)
    IN  IF ~item.ok THEN Failed
        ELSE IF HasAt(s, item.next, << "," >>)
             THEN ParseItemsAt(s, item.next + 1, Append(acc, item.val))
        ELSE IF HasAt(s, item.next, << "]" >>)
             THEN [ok |-> TRUE, val |-> Append(acc, item.val), next |-> item.next + 1]
        ELSE Failed

ParseItems(s, i) ==
    IF HasAt(s, i, << "]" >>) THEN [ok |-> TRUE, val |-> << >>, next |-> i + 1]
    ELSE ParseItemsAt(s, i, << >>)

\* One line of the stream read as {"signature":..,"slot":..,"blockTime":..,
\* "logs":[..]}, nothing before and nothing after.
ParseLine(line) ==
    IF ~HasAt(line, 1, KeySignature) THEN Failed ELSE
    LET sig == ParseString(line, 1 + Len(KeySignature)) IN
    IF ~sig.ok \/ ~HasAt(line, sig.next, KeySlot) THEN Failed ELSE
    LET slt == ParseNat(line, sig.next + Len(KeySlot)) IN
    IF ~slt.ok \/ ~HasAt(line, slt.next, KeyBlockTime) THEN Failed ELSE
    LET bt == ParseOptionalInt(line, slt.next + Len(KeyBlockTime)) IN
    IF ~bt.ok \/ ~HasAt(line, bt.next, KeyLogs) THEN Failed ELSE
    LET lgs == ParseItems(line, bt.next + Len(KeyLogs)) IN
    IF ~lgs.ok \/ ~HasAt(line, lgs.next, << "}" >>) \/ lgs.next # Len(line) THEN Failed
    ELSE [ ok |-> TRUE, signature |-> sig.val, slot |-> slt.val,
           block_time |-> bt.val, logs |-> lgs.val ]

\* The positions of the line terminators in a text.
Terminators(text) == { i \in 1..Len(text) : text[i] = "\n" }

RECURSIVE CutLines(_, _)
\* The text between the terminators from position from on, in order; text
\* after the last terminator is an unfinished line and comes last.
CutLines(text, from) ==
    LET ends == { e \in Terminators(text) : e >= from }
    IN  IF ends # {}
        THEN LET e == CHOOSE x \in ends : \A y \in ends : x <= y
             IN  << SubSeq(text, from, e - 1) >> \o CutLines(text, e + 1)
        ELSE IF from <= Len(text) THEN << SubSeq(text, from, Len(text)) >>
        ELSE << >>

StdoutLines == CutLines(stdout, 1)

\* The stream ends where a line ends.
StdoutComplete == stdout = << >> \/ stdout[Len(stdout)] = "\n"

(***************************************************************************)
(* What the claims speak of.                                               *)
(***************************************************************************)
Rejections == {"vote", "not_involved", "no_logs", "no_program_log"}

\* The call on record r has begun / has ended.
Delivered(r) == outcome[r] # "none"
Ended(r) == outcome[r] \notin {"none", "running"}

\* The three filter stages as the specification states them: not a vote,
\* the target among the account keys, the target's base58 text inside some
\* log line.
PassesAllStages(tx) ==
    /\ ~tx.is_vote
    /\ program_id_bytes \in { tx.account_keys[i] : i \in 1..Len(tx.account_keys) }
    /\ tx.log_messages.some
    /\ tx.log_messages.val # << >>
    /\ LET text == Bs58Encode(program_id_bytes)
       IN  \E i \in 1..Len(tx.log_messages.val) :
               Contains(tx.log_messages.val[i], text)

\* The signature text of each record.
SigText == [r \in RecIds |-> SignatureToString(Records[r].signature)]

\* How a line that carries record r's signature opens.
LineOpening == [r \in RecIds |-> KeySignature \o JsonString(SigText[r])]

\* The line names record r: it opens with r's signature.
LineNames(line, r) == HasAt(line, 1, LineOpening[r])

\* The thread whose step this is: every step of a call moves its thread.
StepOf(t) == pc'[t] # pc[t]

\* C1: every line on the primary output stream names exactly one delivered
\* record, that record passed all three filter stages, and no record is
\* named by more than one line.
C1_LinesAreAcceptedRecords ==
    LET ls == StdoutLines
    IN  /\ \A i \in 1..Len(ls) :
               LET owners == { r \in RecIds : Delivered(r) /\ LineNames(ls[i], r) }
               IN  /\ Cardinality(owners) = 1
                   /\ \A r \in owners : PassesAllStages(Records[r])
        /\ \A r \in RecIds :
               Cardinality({ i \in 1..Len(ls) : LineNames(ls[i], r) }) <= 1

\* Two records were emitted and a third was rejected.
C1_Witness ==
    /\ Len(StdoutLines) = 2
    /\ \E r \in RecIds : outcome[r] \in Rejections

\* C2: in every state, whatever the counters and the other threads, a record
\* past its filter has been accepted if and only if it is not a vote, the
\* account keys hold the target and a log line contains the target's text.
C2_DecisionIsTheThreeStages ==
    /\ \A r \in RecIds :
           /\ outcome[r] \in Rejections => ~PassesAllStages(Records[r])
           /\ outcome[r] \in {"emitted", "panicked"} => PassesAllStages(Records[r])
    /\ \A t \in Threads :
           /\ pc[t] \in {"record_matched", "emit"}
                  => PassesAllStages(Records[transaction[t]])
           /\ pc[t] \in {"store_slot", "load_matches", "load_slot", "report", "filter"}
                  => outcome[transaction[t]] = "running"

\* One record accepted and emitted and one rejected by the log stage, their
\* calls having met different counter values.
C2_Witness ==
    /\ outcome[1] = "emitted"
    /\ outcome[6] = "no_program_log"
    /\ tx_count >= 2

\* The record of thread t's call, before or after the step (0: none).
CallOf(t) == IF transaction[t] # 0 THEN transaction[t] ELSE transaction'[t]

\* C3: every step of a call on a vote record leaves match_count and the
\* primary output stream alone; its first step adds one to tx_count and no
\* other step changes it; and the call ends by the vote return.
C3_VoteCallOnlyCounts ==
    [][\A t \in Threads :
          (StepOf(t) /\ CallOf(t) # 0 /\ Records[CallOf(t)].is_vote)
              => /\ match_count' = match_count
                 /\ stdout' = stdout
                 /\ tx_count' = tx_count + (IF pc[t] = "idle" THEN 1 ELSE 0)
                 /\ pc'[t] \notin {"record_matched", "emit", "panicked"}
                 /\ pc'[t] = "idle" => outcome'[CallOf(t)] = "vote"]_vars

\* The call on the vote record, whose account keys hold the target and
\* whose logs name it, has ended.
C3_Witness ==
    /\ program_id_bytes = KeyA
    /\ outcome[2] = "vote"

\* C4: tx_count is the number of calls begun, and with no call in progress
\* it is the number of calls ended.
C4_ProcessedCountsEveryCall ==
    /\ tx_count = Cardinality({ r \in RecIds : Delivered(r) })
    /\ Quiescent => tx_count = Cardinality({ r \in RecIds : Ended(r) })

\* The text of the line each record gives when emitted.
LineOf ==
    [r \in RecIds |->
        ToJson(MakeOutputRecord(Records[r], ExtractLogs(Records[r].log_messages)))]

\* That text read back as one JSON record.
ReadBack == [r \in RecIds |-> ParseLine(LineOf[r])]

Emitted == { r \in RecIds : outcome[r] = "emitted" }

\* Three calls have ended; records 1 and 7 were in progress together, as
\* record 7, handed out after record 1, has its line first.
C4_Witness ==
    /\ Quiescent
    /\ tx_count = 3
    /\ Len(StdoutLines) = 2
    /\ LineNames(StdoutLines[1], 7)
    /\ LineNames(StdoutLines[2], 1)

\* C5: the primary output stream ends where a line ends, has as many lines
\* as calls have emitted, and each line is the whole serialization of
\* exactly one emitted record and reads back as one JSON record.
C5_StdoutIsWholeLines ==
    LET ls == StdoutLines
    IN  /\ StdoutComplete
        /\ Len(ls) = Cardinality(Emitted)
        /\ \A i \in 1..Len(ls) :
               LET whole == { r \in Emitted : ls[i] = LineOf[r] }
               IN  /\ Cardinality(whole) = 1
                   /\ \A r \in whole : ReadBack[r].ok

\* One thread has written a line while the other stands before its own
\* write.
C5_Witness ==
    /\ Len(StdoutLines) = 1
    /\ \E t \in Threads : pc[t] = "emit"

\* A PROGRESS line printing v as processed is on the diagnostic stream.
HasProgressLine(v) ==
    \E i \in 1..Len(stderr) : stderr[i].kind = "PROGRESS" /\ stderr[i].processed = v

\* Where a call stands once its progress test and report are behind it.
PastReport == {"filter", "record_matched", "emit"}

\* C6 as stated: the call that brings tx_count to a positive multiple of the
\* threshold is the one with a progress line, which prints the value after
\* the increment; every other call has none.
C6_Original ==
    /\ \A t \in Threads :
           pc[t] \in PastReport =>
               LET after == count[t] + 1
               IN  (after > 0 /\ after % Threshold = 0) <=> HasProgressLine(after)
    /\ \A i \in 1..Len(stderr) :
           stderr[i].kind = "PROGRESS" => stderr[i].processed <= tx_count

\* C6 amended: the call whose fetch_add returned a positive multiple of the
\* threshold (the call that brings tx_count to that multiple plus one) is
\* the one with a progress line, which prints the returned value, the one
\* before the increment; a call whose fetch_add returned 0 or a non-multiple
\* has none.
C6_ProgressOnReturnedMultiple ==
    /\ \A t \in Threads :
           pc[t] \in PastReport =>
               ((count[t] > 0 /\ count[t] % Threshold = 0) <=> HasProgressLine(count[t]))
    /\ \A i \in 1..Len(stderr) :
           stderr[i].kind = "PROGRESS" =>
               /\ stderr[i].processed > 0
               /\ stderr[i].processed % Threshold = 0
               /\ stderr[i].processed < tx_count

\* The call that got the threshold back from fetch_add has reported.
C6_Witness ==
    \E t \in Threads :
        /\ pc[t] = "filter"
        /\ count[t] = Threshold
        /\ tx_count = Threshold + 1
        /\ HasProgressLine(Threshold)

\* C7 as stated: a --program argument that does not decode to exactly KeyLen
\* bytes stops the process before the plugin exists and before any record
\* is consumed.
C7_Original ==
    LET decoded == Bs58Decode(program)
    IN  (~decoded.ok \/ Len(decoded.bytes) # KeyLen)
            => /\ main_pc \notin {"running", "done", "failed"}
               /\ program_id_bytes = << >>
               /\ \A r \in RecIds : outcome[r] = "none"

\* C8 as stated: a call that has ended has either left no line and
\* match_count alone, or added one to match_count and written one line; so
\* with no call in progress match_count is the number of lines.
C8_Original ==
    /\ \A r \in RecIds :
           Ended(r) =>
               LET named == Cardinality({ i \in 1..Len(StdoutLines) :
                                            LineNames(StdoutLines[i], r) })
               IN  IF outcome[r] \in Rejections THEN named = 0 ELSE named = 1
    /\ Quiescent => match_count = Len(StdoutLines)

\* Past stage 2 with no log line: not a vote, the target among the account
\* keys, the log list absent or empty.
NoLogsPastStage2(tx) ==
    /\ ~tx.is_vote
    /\ program_id_bytes \in { tx.account_keys[i] : i \in 1..Len(tx.account_keys) }
    /\ (~tx.log_messages.some \/ tx.log_messages.val = << >>)

\* C9: every step of a call on a record past stage 2 with an absent or empty
\* log list leaves match_count and the primary output stream alone, never
\* panics, and the call ends by the return of the empty-log test.
C9_NoLogsIsRejectedQuietly ==
    [][\A t \in Threads :
          (StepOf(t) /\ CallOf(t) # 0 /\ NoLogsPastStage2(Records[CallOf(t)]))
              => /\ match_count' = match_count
                 /\ stdout' = stdout
                 /\ pc'[t] \notin {"record_matched", "emit", "panicked"}
                 /\ pc'[t] = "idle" => outcome'[CallOf(t)] = "no_logs"]_vars

\* The calls on the record without a log list and on the record with an
\* empty one have both ended.
C9_Witness ==
    /\ program_id_bytes = KeyA
    /\ outcome[4] = "no_logs"
    /\ outcome[5] = "no_logs"

\* C10: the step that emits appends one terminated line, the line of the
\* call's own record, and that line reads back as the record: its signature
\* text, its slot, its block time (null for none) and its log lines in
\* order.
C10_LineIsProjection ==
    [][\A t \in Threads :
          (pc[t] = "emit" /\ pc'[t] = "idle")
              => LET r     == transaction[t]
                     tx    == Records[r]
                     added == SubSeq(stdout', Len(stdout) + 1, Len(stdout'))
                     read  == ReadBack[r]
                 IN  /\ Len(stdout') > Len(stdout)
                     /\ SubSeq(stdout', 1, Len(stdout)) = stdout
                     /\ added[Len(added)] = "\n"
                     /\ SubSeq(added, 1, Len(added) - 1) = LineOf[r]
                     /\ read.ok
                     /\ read.signature = SigText[r]
                     /\ read.slot = tx.slot
                     /\ read.block_time = tx.block_time
                     /\ read.logs = tx.log_messages.val]_vars

\* Record 7 (no timestamp, text that needs escaping) and record 1 have both
\* been emitted.
C10_Witness ==
    /\ outcome[7] = "emitted"
    /\ outcome[1] = "emitted"

\* C11: the primary output stream changes only by an emitting step, which
\* appends the line of its own accepted record; the banner, every PROGRESS
\* line and the DONE line are appended to the diagnostic stream by steps that
\* leave the primary output stream alone.
C11_StdoutHoldsOnlyRecordLines ==
    [][/\ stdout' # stdout
           => \E t \in Threads :
                  /\ pc[t] = "emit" /\ pc'[t] = "idle"
                  /\ PassesAllStages(Records[transaction[t]])
                  /\ stdout' = stdout \o LineOf[transaction[t]] \o << "\n" >>
                  /\ stderr' = stderr
       /\ stderr' # stderr => stdout' = stdout
       /\ (main_pc = "start" /\ main_pc' # main_pc)
              => stderr' = Append(stderr, [ kind |-> "START" ])
       /\ main_pc' = "done" /\ main_pc # "done"
              => stderr' = Append(stderr, [ kind |-> "DONE" ])
       /\ \A t \in Threads :
              (pc[t] = "report" /\ StepOf(t))
                  => /\ Len(stderr') = Len(stderr) + 1
                     /\ stderr'[Len(stderr')].kind = "PROGRESS"]_vars

\* The banner, a PROGRESS line and the DONE line are on the diagnostic stream
\* and the primary output stream holds one line, a record's.
C11_Witness ==
    /\ Len(stderr) = 3
    /\ { stderr[i].kind : i \in 1..Len(stderr) } = {"START", "PROGRESS", "DONE"}
    /\ Len(StdoutLines) = 1
    /\ \E r \in Emitted : StdoutLines[1] = LineOf[r]

\* C12: every call that has returned, whether its record was rejected at the
\* vote, account-key, empty-log or log-text stage or accepted and emitted,
\* returned Ok; no call has returned a failure, and a call that has not
\* returned (not delivered, in progress, or unwound by a panic) has no value.
C12_EveryReturnIsOk ==
    \A r \in RecIds :
        /\ outcome[r] \in Rejections \cup {"emitted"} => result[r] = "Ok"
        /\ outcome[r] \in {"none", "running", "panicked"} => result[r] = "none"
        /\ result[r] # "Err"

\* Three calls have returned: one rejected for its missing logs, one rejected
\* at another stage and one emitted.
C12_Witness ==
    /\ \E r \in RecIds : outcome[r] = "no_logs" /\ result[r] = "Ok"
    /\ \E r \in RecIds : outcome[r] \in Rejections \ {"no_logs"} /\ result[r] = "Ok"
    /\ \E r \in RecIds : outcome[r] = "emitted" /\ result[r] = "Ok"

\* The positions of a call, in the order of the code's lines, and the part
\* of the callback each position's step belongs to.
CallPositions ==
    << "idle", "store_slot", "load_matches", "load_slot", "report", "filter",
       "record_matched", "emit" >>

PositionOf(p) == CHOOSE i \in 1..Len(CallPositions) : CallPositions[i] = p

PartOf(p) ==
    CASE p \in {"idle", "store_slot"}                 -> "record_seen"
      [] p \in {"load_matches", "load_slot", "report"} -> "maybe_report"
      [] p = "filter"                                 -> "classify"
      [] p = "record_matched"                         -> "record_matched"
      [] p = "emit"                                   -> "emit"

\* Thread t takes a step of a call and the call goes on after it.
GoesOn(t) == StepOf(t) /\ pc'[t] \notin {"idle", "panicked"}

\* The parts in the order the claim gives, and in the order of the code.
ClaimedOrder ==
    << "classify", "record_seen", "maybe_report", "record_matched", "emit" >>
CodeOrder ==
    << "record_seen", "maybe_report", "classify", "record_matched", "emit" >>

RankIn(order, part) == CHOOSE i \in 1..Len(order) : order[i] = part

\* C13 as stated: the parts of one call follow each other in the order
\* classification, record_seen, maybe_report, record_matched, emit, and a
\* rejected call ends after maybe_report.
C13_Original ==
    [][\A t \in Threads :
          /\ GoesOn(t)
                 => RankIn(ClaimedOrder, PartOf(pc[t]))
                        <= RankIn(ClaimedOrder, PartOf(pc'[t]))
          /\ (StepOf(t) /\ pc'[t] = "idle" /\ outcome'[transaction[t]] \in Rejections)
                 => PartOf(pc[t]) \in {"record_seen", "maybe_report"}]_vars

\* C13: the parts of one call follow each other in the order record_seen
\* (the processed increment, then the last_slot store), maybe_report,
\* classification, and only for an accepted record record_matched followed
\* by emit; a rejected call ends at its classification; and no call comes
\* back to a position it has left.
C13_CounterReportClassifyEmit ==
    [][\A t \in Threads :
          /\ GoesOn(t)
                 => /\ RankIn(CodeOrder, PartOf(pc[t]))
                           <= RankIn(CodeOrder, PartOf(pc'[t]))
                    /\ PositionOf(pc[t]) < PositionOf(pc'[t])
          /\ (StepOf(t) /\ pc[t] = "idle")
                 => /\ pc'[t] = "store_slot"
                    /\ tx_count' = tx_count + 1
          /\ (StepOf(t) /\ pc'[t] = "filter")
                 => pc[t] \in {"store_slot", "report"}
          /\ (StepOf(t) /\ pc'[t] = "record_matched")
                 => /\ pc[t] = "filter"
                    /\ PassesAllStages(Records[transaction[t]])
          /\ (StepOf(t) /\ pc'[t] = "emit") => pc[t] = "record_matched"
          /\ (StepOf(t) /\ pc'[t] = "idle")
                 => \/ /\ pc[t] = "filter"
                       /\ outcome'[transaction[t]] \in Rejections
                    \/ /\ pc[t] = "emit"
                       /\ outcome'[transaction[t]] = "emitted"]_vars

\* A call that made a report has been accepted and counted and stands at its
\* emission, and another call, rejected, has ended.
C13_Witness ==
    /\ \E t \in Threads :
           /\ pc[t] = "emit"
           /\ ProgressDue(count[t])
           /\ HasProgressLine(count[t])
    /\ \E r \in RecIds : outcome[r] \in Rejections

\* C14: last_slot is 0 until the first store; every store step sets it to the
\* slot of the storing call's record, whatever it held and however the slot
\* compares with it, so that it always holds the slot of the most recent
\* store; and no other step changes it.
C14_LastSlotIsLastWrite ==
    /\ last_slot = 0
    /\ [][/\ \A t \in Threads :
                 (pc[t] = "store_slot" /\ StepOf(t))
                     => last_slot' = Records[transaction[t]].slot
          /\ last_slot' # last_slot
                 => \E t \in Threads : pc[t] = "store_slot" /\ StepOf(t)]_vars

\* last_slot has gone down: it is lower than the slot of a record whose call,
\* store included, has ended.
C14_Witness ==
    /\ last_slot > 0
    /\ \E r \in RecIds : Ended(r) /\ Records[r].slot > last_slot

\* C15: tx_count and match_count start at 0 and every step leaves each of
\* them as it is or adds exactly one to it; neither is ever lowered or reset.
C15_CountersOnlyGoUpByOne ==
    /\ tx_count = 0
    /\ match_count = 0
    /\ [][/\ tx_count' \in {tx_count, tx_count + 1}
          /\ match_count' \in {match_count, match_count + 1}]_vars

\* Three calls have been counted, two of them as matches, and a report has
\* been made in between.
C15_Witness ==
    /\ tx_count = 3
    /\ match_count = 2
    /\ HasProgressLine(Threshold)

\* The text of record r's line starts at place k of the stream, where a line
\* starts, and runs to a line terminator.
LineStartsAt(stream, k, r) ==
    /\ k = 1 \/ stream[k - 1] = "\n"
    /\ HasAt(stream, k, LineOf[r] \o << "\n" >>)

\* C16: when a thread that has already emitted record A in an earlier call
\* emits record B, A's line is on the primary output stream before B's line:
\* the lines of one thread's records stand in the order of its calls.
C16_OneThreadsLinesInCallOrder ==
    [][\A t \in Threads :
          (pc[t] = "emit" /\ pc'[t] = "idle" /\ wrote[t] # 0)
              => /\ Len(stdout') > Len(stdout)
                 /\ LineStartsAt(stdout', Len(stdout) + 1, transaction[t])
                 /\ \E k \in 1..Len(stdout) : LineStartsAt(stdout', k, wrote[t])]_vars

\* One thread has emitted record 1 and, in a later call, record 7; the other
\* thread has emitted nothing.
C16_Witness ==
    /\ \E t \in Threads :
           /\ wrote[t] = 7
           /\ \A u \in Threads \ {t} : wrote[u] = 0
    /\ outcome[1] = "emitted"
    /\ StdoutLines = << LineOf[1], LineOf[7] >>

\* The places of the DONE lines on the diagnostic stream.
DoneLines == { i \in 1..Len(stderr) : stderr[i].kind = "DONE" }

\* C17: the diagnostic stream holds at most one DONE line; it holds one
\* exactly when run_range has returned Ok, it is then the last line, no call
\* is in progress, and nothing more is written to either stream; when
\* run_range has returned an error there is no DONE line.
C17_DoneOnceAfterSuccessfulRun ==
    /\ [](/\ Cardinality(DoneLines) <= 1
          /\ DoneLines # {} <=> main_pc = "done"
          /\ DoneLines # {} => /\ DoneLines = {Len(stderr)}
                               /\ \A t \in Threads : pc[t] = "idle"
          /\ main_pc = "failed" => DoneLines = {})
    /\ [][/\ main_pc = "done" => (stdout' = stdout /\ stderr' = stderr)
          /\ DoneLines' # DoneLines => main_pc = "running"]_vars

\* run_range has returned Ok after two record lines and a PROGRESS line, and
\* the DONE line is the last of the diagnostic stream.
C17_Witness ==
    /\ main_pc = "done"
    /\ Len(StdoutLines) = 2
    /\ HasProgressLine(Threshold)
    /\ stderr[Len(stderr)].kind = "DONE"

\* The places of the PROGRESS lines on the diagnostic stream.
ProgressLines == { i \in 1..Len(stderr) : stderr[i].kind = "PROGRESS" }

\* A call that was handed v by fetch_add has not yet made its report.
ReportPending(v) ==
    \E t \in Threads :
        /\ pc[t] \in {"store_slot", "load_matches", "load_slot", "report"}
        /\ count[t] = v

\* C18: no two PROGRESS lines print the same processed value, every value
\* printed is a strictly positive multiple of the threshold, and every such
\* multiple that tx_count has passed either has its PROGRESS line or is held
\* by a call that has not yet got past its report.
C18_EachMultipleReportedOnce ==
    /\ \A i, j \in ProgressLines :
           stderr[i].processed = stderr[j].processed => i = j
    /\ \A i \in ProgressLines :
           /\ stderr[i].processed > 0
           /\ stderr[i].processed % Threshold = 0
    /\ \A m \in 1..(tx_count - 1) :
           m % Threshold = 0 => (HasProgressLine(m) \/ ReportPending(m))

\* The counter has passed the threshold with both threads at work, every
\* call has ended and the one PROGRESS line prints the threshold.
C18_Witness ==
    /\ tx_count > Threshold
    /\ Quiescent
    /\ Cardinality(ProgressLines) = 1
    /\ HasProgressLine(Threshold)
    /\ \A t \in Threads : wrote[t] # 0

\* C19 as stated: in every PROGRESS line the matched value printed is at
\* most the processed value printed.
C19_Original ==
    \A i \in ProgressLines : stderr[i].matched <= stderr[i].processed

\* C19: the matched value a call has loaded for its report, and the matched
\* value of every PROGRESS line, is below tx_count, the number of calls begun
\* by then (the reporting call, which has not counted itself as a match, is
\* one of them); the processed value of the line is below tx_count as well.
C19_MatchedBelowCallsBegun ==
    /\ \A t \in Threads :
           pc[t] \in {"load_slot", "report"} => matches[t] < tx_count
    /\ \A i \in ProgressLines :
           /\ stderr[i].matched < tx_count
           /\ stderr[i].processed < tx_count

\* A PROGRESS line prints a matched value above its processed value: a call
\* that began after the reporting call was counted as a match before the
\* reporting call loaded match_count.
C19_Witness ==
    \E i \in ProgressLines :
        /\ stderr[i].processed = Threshold
        /\ stderr[i].matched = Threshold + 1
        /\ tx_count = Threshold + 2

\* The number of line terminators on the primary output stream.
StdoutLineCount == Cardinality(Terminators(stdout))

\* C20: in every state match_count is at most tx_count, and the primary
\* output stream holds at most match_count lines.
C20_LinesAtMostMatchedAtMostProcessed ==
    /\ match_count <= tx_count
    /\ StdoutLineCount <= match_count

\* Four calls have been counted, all four as matches, three lines are on the
\* primary output stream and the fourth call, counted, has not printed.
C20_Witness ==
    /\ tx_count = 4
    /\ match_count = 4
    /\ StdoutLineCount = 3
    /\ \E t \in Threads : pc[t] = "emit"

=============================================================================
